---- MODULE Spec2Model ----
(***************************************************************************)
(* Model of the energy-proportionality analysis scripts:                   *)
(*   parse_turbostat.py  - turbostat log parser, aggregator, CSV export    *)
(*   analyze_results.py  - run loader, derived averages, energy model      *)
(*                                                                         *)
(* Text is modelled structurally: a log is a sequence of lines, a line is  *)
(* a sequence of whitespace-separated tokens (rendered joined by single    *)
(* blanks, no leading blank; the empty sequence is a blank line), and the  *)
(* file is the lines joined by "\n".  Python indices are 0-based; the      *)
(* model keeps the 0-based values in col_map and adds 1 on access.         *)
(* Floats are modelled by the integer-valued numbers the token alphabet    *)
(* can denote; means and other quotients are kept as exact fractions       *)
(* [num, den] (den = 0 stands for float('inf')).                           *)
(***************************************************************************)
EXTENDS Integers, Sequences, FiniteSets, TLC

VARIABLES content, samples, cpu_filter, results, csv_rows, pc,
          results_file, baseline_file, runs, baseline_c6, energy, summary, rpc

vars == <<content, samples, cpu_filter, results, csv_rows, pc,
          results_file, baseline_file, runs, baseline_c6, energy, summary, rpc>>

tvars == <<content, samples, cpu_filter, results, csv_rows, pc>>
rvars == <<results_file, baseline_file, runs, baseline_c6, energy, summary, rpc>>

(***************************************************************************)
(* Bounds                                                                  *)
(***************************************************************************)
MaxLines == 3
MaxRows == 3
MaxSamples == 3

(***************************************************************************)
(* Generic helpers                                                         *)
(***************************************************************************)
RECURSIVE SumSeq(_)
SumSeq(s) == IF s = <<>> THEN 0 ELSE Head(s) + SumSeq(Tail(s))

SetMax(S) == CHOOSE x \in S : \A y \in S : y <= x
SetMin(S) == CHOOSE x \in S : \A y \in S : x <= y

SeqsUpTo(S, n) == UNION {[1..k -> S] : k \in 0..n}

\* Optional values (Python None): <<>> is None, <<v>> is the value v.
None == <<>>
Some(v) == <<v>>

(***************************************************************************)
(* Token level: str.lower, substring tests, int(), float()                 *)
(***************************************************************************)
\* str.lower() on the tokens of the alphabet
Lower(tok) ==
    CASE tok = "Package" -> "package"
      [] tok = "Core"    -> "core"
      [] tok = "CPU"     -> "cpu"
      [] tok = "Avg_MHz" -> "avg_mhz"
      [] tok = "Busy%"   -> "busy%"
      [] tok = "Bzy_MHz" -> "bzy_mhz"
      [] tok = "PkgWatt" -> "pkgwatt"
      [] tok = "CoreWatt" -> "corewatt"
      [] tok = "C1%"     -> "c1%"
      [] tok = "C6%"     -> "c6%"
      [] tok = "C7%"     -> "c7%"
      [] tok = "1e2"     -> "1e2"
      [] tok = "x"       -> "x"
      [] OTHER           -> tok

\* 'Core' in tok / 'CPU' in tok / tok.startswith('CPU') / tok.startswith('-')
ContainsCore(tok) == tok \in {"Core", "CoreWatt"}
ContainsCPU(tok) == tok \in {"CPU"}
StartsWithCPU(tok) == tok \in {"CPU"}
StartsWithDash(tok) == tok \in {"-", "----", "-1", "-2", "-5"}

\* int(tok): defined exactly on the tokens below, ValueError otherwise
IntTable ==
    ("0" :> 0) @@ ("1" :> 1) @@ ("2" :> 2) @@ ("3" :> 3) @@ ("5" :> 5) @@
    ("10" :> 10) @@ ("20" :> 20) @@ ("30" :> 30) @@ ("50" :> 50) @@
    ("75" :> 75) @@ ("80" :> 80) @@ ("150" :> 150) @@
    ("-1" :> (0 - 1)) @@ ("-2" :> (0 - 2)) @@ ("-5" :> (0 - 5))
IsInt(tok) == tok \in DOMAIN IntTable
IntOf(tok) == IntTable[tok]

\* float(tok): every int literal, plus exponent notation that int() rejects
FloatTable == IntTable @@ ("1e2" :> 100)
IsFloat(tok) == tok \in DOMAIN FloatTable
FloatOf(tok) == FloatTable[tok]

(***************************************************************************)
(* parse_turbostat_log                                                     *)
(***************************************************************************)
\* 'Core' in line and 'CPU' in line
IsHeaderLine(line) ==
    /\ \E i \in DOMAIN line : ContainsCore(line[i])
    /\ \E i \in DOMAIN line : ContainsCPU(line[i])

\* tokens of the text that starts at line i (newlines are whitespace)
RECURSIVE FlatFrom(_, _)
FlatFrom(text, i) ==
    IF i > Len(text) THEN <<>> ELSE text[i] \o FlatFrom(text, i + 1)

\* the "\n" that precedes line i matches  \n(?=\s*Core\s+CPU)
SplitAt(text, i) ==
    LET rest == FlatFrom(text, i)
    IN  /\ i \in 2..Len(text)
        /\ Len(rest) >= 2
        /\ rest[1] = "Core"
        /\ StartsWithCPU(rest[2])

\* re.split: the sections, each as the sequence of its line numbers
SectionStarts(text) == {1} \cup {i \in 2..Len(text) : SplitAt(text, i)}

SectionFrom(text, s) ==
    LET later == {t \in SectionStarts(text) : t > s}
        last  == IF later = {} THEN Len(text) ELSE SetMin(later) - 1
    IN  [k \in 1..(last - s + 1) |-> s + k - 1]

RECURSIVE SectionsFrom(_, _)
SectionsFrom(text, s) ==
    LET later == {t \in SectionStarts(text) : t > s}
    IN  IF later = {} THEN <<SectionFrom(text, s)>>
        ELSE <<SectionFrom(text, s)>> \o SectionsFrom(text, SetMin(later))

Sections(text) == SectionsFrom(text, 1)

\* section.strip().split('\n'): leading and trailing blank lines go
\* (an all-blank section leaves one blank line, which reads like none)
StripSection(text, idxs) ==
    LET full == {k \in DOMAIN idxs : text[idxs[k]] # <<>>}
    IN  IF full = {} THEN <<>>
        ELSE [k \in 1..(SetMax(full) - SetMin(full) + 1) |-> idxs[SetMin(full) + k - 1]]

\* header_idx: position in the section of the first header line, 0 if none
HeaderIdx(text, lines) ==
    LET hs == {k \in DOMAIN lines : IsHeaderLine(text[lines[k]])}
    IN  IF hs = {} THEN 0 ELSE SetMin(hs)

\* col_map[col.lower()] = i, later columns overwrite earlier ones
ColMap(columns) ==
    [name \in {Lower(columns[i]) : i \in DOMAIN columns} |->
        SetMax({i - 1 : i \in {j \in DOMAIN columns : Lower(columns[j]) = name}})]

\* col_map.get(key, default)
Get(col_map, key, default) ==
    IF key \in DOMAIN col_map THEN col_map[key] ELSE default

FloatKeys == {"avg_mhz", "busy%", "bzy_mhz", "pkgwatt", "corewatt", "c1%", "c6%", "c7%"}

\* float(parts[col_map[key]]) if key in col_map else default
FieldOr(parts, col_map, key, default) ==
    IF key \in DOMAIN col_map THEN FloatOf(parts[col_map[key] + 1]) ELSE default

OptField(parts, col_map, key) ==
    IF key \in DOMAIN col_map THEN Some(FloatOf(parts[col_map[key] + 1])) ELSE None

\* the try block of one data row: <<sample>>, or <<>> on continue / exception
ParseRow(parts, col_map) ==
    LET cpu_idx == Get(col_map, "cpu", 1)
    IN  IF cpu_idx + 1 > Len(parts) THEN <<>>                 \* IndexError
        ELSE IF parts[cpu_idx + 1] # "-" /\ ~IsInt(parts[cpu_idx + 1]) THEN <<>>  \* ValueError
        ELSE LET cpu == IF parts[cpu_idx + 1] # "-" THEN IntOf(parts[cpu_idx + 1]) ELSE 0 - 1
             IN  IF cpu = 0 - 1 THEN <<>>
                 ELSE IF \E key \in FloatKeys \cap DOMAIN col_map :
                             ~IsFloat(parts[col_map[key] + 1]) THEN <<>>   \* ValueError
                 ELSE << [ timestamp     |-> None,
                           cpu           |-> cpu,
                           avg_mhz       |-> FieldOr(parts, col_map, "avg_mhz", 0),
                           busy_percent  |-> FieldOr(parts, col_map, "busy%", 0),
                           bzy_mhz       |-> FieldOr(parts, col_map, "bzy_mhz", 0),
                           pkg_watt      |-> OptField(parts, col_map, "pkgwatt"),
                           core_watt     |-> OptField(parts, col_map, "corewatt"),
                           c1_percent    |-> FieldOr(parts, col_map, "c1%", 0),
                           c6_percent    |-> FieldOr(parts, col_map, "c6%", 0),
                           c7_percent    |-> FieldOr(parts, col_map, "c7%", 0) ] >>

\* one line of "for line in lines[header_idx + 1:]"
ParseLine(line, columns) ==
    IF line = <<>> \/ StartsWithDash(line[1]) THEN <<>>
    ELSE IF Len(line) < Len(columns) THEN <<>>
    ELSE ParseRow(line, ColMap(columns))

\* the data loop of one section from position k on; every sample is paired
\* with the number of the line it was read from
RECURSIVE ParseLinesFrom(_, _, _, _)
ParseLinesFrom(text, lines, k, columns) ==
    IF k > Len(lines) THEN <<>>
    ELSE LET got == ParseLine(text[lines[k]], columns)
         IN  (IF got = <<>> THEN <<>> ELSE <<[line |-> lines[k], sample |-> got[1]]>>)
             \o ParseLinesFrom(text, lines, k + 1, columns)

ParseSection(text, idxs) ==
    LET lines == StripSection(text, idxs)
        header_idx == HeaderIdx(text, lines)
    IN  IF header_idx = 0 THEN <<>>
        ELSE ParseLinesFrom(text, lines, header_idx + 1, text[lines[header_idx]])

RECURSIVE ParseSections(_, _, _)
ParseSections(text, sections, j) ==
    IF j > Len(sections) THEN <<>>
    ELSE ParseSection(text, sections[j]) \o ParseSections(text, sections, j + 1)

\* the samples in append order, each with its source line
ParsedRows(text) == ParseSections(text, Sections(text), 1)

parse_turbostat_log(text) ==
    [i \in DOMAIN ParsedRows(text) |-> ParsedRows(text)[i].sample]

(***************************************************************************)
(* analyze_samples                                                         *)
(***************************************************************************)
\* statistics.mean as an exact fraction
Mean(xs) == [num |-> SumSeq(xs), den |-> Len(xs)]
Zero == [num |-> 0, den |-> 1]

SeqMax(xs) == SetMax({xs[i] : i \in DOMAIN xs})
SeqMin(xs) == SetMin({xs[i] : i \in DOMAIN xs})

\* statistics.pstdev shape: squared deviations over n
PStdev(xs) ==
    LET n == Len(xs)
        S == SumSeq(xs)
        Q == SumSeq([i \in DOMAIN xs |-> xs[i] * xs[i]])
    IN  [sq_num |-> n * Q - S * S, sq_den |-> n * n]

\* statistics.stdev: the square root of sq_num / sq_den, where
\* sum((x - mean)^2) / (n - 1)  =  (n * sum(x^2) - sum(x)^2) / (n * (n - 1))
Stdev(xs) ==
    LET n == Len(xs)
        S == SumSeq(xs)
        Q == SumSeq([i \in DOMAIN xs |-> xs[i] * xs[i]])
    IN  [sq_num |-> n * Q - S * S, sq_den |-> n * (n - 1)]

ZeroStd == [sq_num |-> 0, sq_den |-> 1]

\* "if cpu_filter:" - None and the empty list are both falsy
Truthy(opt_list) == opt_list # None /\ opt_list[1] # <<>>

InList(x, list) == \E i \in DOMAIN list : list[i] = x

FilterSamples(ss, filter) ==
    IF Truthy(filter) THEN SelectSeq(ss, LAMBDA s : InList(s.cpu, filter[1])) ELSE ss

\* by_cpu.keys() in insertion order
RECURSIVE CpuOrder(_)
CpuOrder(ss) ==
    IF ss = <<>> THEN <<>>
    ELSE LET before == CpuOrder(SubSeq(ss, 1, Len(ss) - 1))
             c == ss[Len(ss)].cpu
         IN  IF InList(c, before) THEN before ELSE Append(before, c)

Project(ss, f(_)) == [i \in DOMAIN ss |-> f(ss[i])]

PerCpu(cpu_samples) ==
    LET c6_values   == [i \in DOMAIN cpu_samples |-> cpu_samples[i].c6_percent]
        busy_values == [i \in DOMAIN cpu_samples |-> cpu_samples[i].busy_percent]
        positive    == SelectSeq(cpu_samples, LAMBDA s : s.avg_mhz > 0)
        freq_values == [i \in DOMAIN positive |-> positive[i].avg_mhz]
    IN  [ samples  |-> Len(cpu_samples),
          c6_avg   |-> Mean(c6_values),
          c6_max   |-> SeqMax(c6_values),
          c6_min   |-> SeqMin(c6_values),
          busy_avg |-> Mean(busy_values),
          freq_avg |-> IF freq_values # <<>> THEN Mean(freq_values) ELSE Zero ]

analyze_samples(all_samples, filter) ==
    LET ss == FilterSamples(all_samples, filter)
        all_c6   == [i \in DOMAIN ss |-> ss[i].c6_percent]
        all_busy == [i \in DOMAIN ss |-> ss[i].busy_percent]
        with_pkg == SelectSeq(ss, LAMBDA s : s.pkg_watt # None)
        all_pkg_watt == [i \in DOMAIN with_pkg |-> with_pkg[i].pkg_watt[1]]
    IN  IF ss = <<>> THEN [error |-> TRUE]
        ELSE [ error         |-> FALSE,
               total_samples |-> Len(ss),
               cpus          |-> CpuOrder(ss),
               per_cpu       |-> [c \in {ss[i].cpu : i \in DOMAIN ss} |->
                                     PerCpu(SelectSeq(ss, LAMBDA s : s.cpu = c))],
               aggregate     |->
                   [ c6_avg       |-> Mean(all_c6),
                     c6_std       |-> IF Len(all_c6) > 1 THEN Stdev(all_c6) ELSE ZeroStd,
                     busy_avg     |-> Mean(all_busy),
                     pkg_watt_avg |-> IF all_pkg_watt # <<>>
                                      THEN Some(Mean(all_pkg_watt)) ELSE None ] ]

(***************************************************************************)
(* export_to_csv: a cell is <<>> for the empty string, <<v>> for str(v)    *)
(***************************************************************************)
\* "value or ''": None and 0.0 are both falsy
OrEmpty(opt) == IF opt = None \/ opt[1] = 0 THEN <<>> ELSE <<opt[1]>>

CsvRow(s) ==
    [ cpu |-> <<s.cpu>>, avg_mhz |-> <<s.avg_mhz>>, busy_percent |-> <<s.busy_percent>>,
      bzy_mhz |-> <<s.bzy_mhz>>, c1_percent |-> <<s.c1_percent>>,
      c6_percent |-> <<s.c6_percent>>, c7_percent |-> <<s.c7_percent>>,
      pkg_watt |-> OrEmpty(s.pkg_watt), core_watt |-> OrEmpty(s.core_watt) ]

export_to_csv(ss) == [i \in DOMAIN ss |-> CsvRow(ss[i])]

\* reading an optional cell back: the empty string is "absent"
ReadOptCell(cell) == IF cell = <<>> THEN None ELSE Some(cell[1])

(***************************************************************************)
(* Turbostat side: inputs and actions                                      *)
(***************************************************************************)
HeaderLines ==
    { <<"Core", "CPU", "C6%">>,
      <<"Core", "CPU", "C6%", "PkgWatt">>,
      <<"Package", "Core", "CPU", "C6%">>,
      <<"Package", "Core", "CPU", "Busy%", "C6%">> }

DataLines ==
    { <<"0", "1", "50">>, <<"0", "2", "150">>,
      <<"0", "-2", "50">>, <<"0", "-1", "50">>, <<"0", "-", "50">>,
      <<"-", "-", "-">>, <<"0", "1", "x">>, <<"0", "1">>, <<>>,
      <<"0", "1", "50", "0">>, <<"0", "2", "20", "75">>,
      <<"0", "0", "1", "20", "75">>, <<"0", "1e2", "1e2">> }

LineSet == HeaderLines \cup DataLines

\* cpu_filter as main builds it from --cpus: None, or a non-empty list
CliFilters == {None, Some(<<1>>), Some(<<2, 3>>)}

\* cpu_filter as a caller of analyze_samples may pass it
Filters == CliFilters \cup {Some(<<>>)}

InitR0 ==
    /\ results_file = <<>> /\ baseline_file = None /\ runs = <<>>
    /\ baseline_c6 = None /\ energy = None /\ summary = None /\ rpc = "off"

InitT ==
    /\ content \in SeqsUpTo(LineSet, MaxLines)
    /\ samples = <<>> /\ cpu_filter = None /\ results = None /\ csv_rows = <<>>
    /\ pc = "start"
    /\ InitR0

\* main: parse the log; no samples is "No valid samples found", exit 1
ParseLog ==
    /\ pc = "start"
    /\ samples' = parse_turbostat_log(content)
    /\ pc' = IF parse_turbostat_log(content) = <<>> THEN "exit" ELSE "parsed"
    /\ UNCHANGED <<content, cpu_filter, results, csv_rows>>
    /\ UNCHANGED rvars

\* main: build cpu_filter from --cpus and analyze
Analyze(filter) ==
    /\ pc = "parsed"
    /\ cpu_filter' = filter
    /\ results' = analyze_samples(samples, filter)
    /\ pc' = "analyzed"
    /\ UNCHANGED <<content, samples, csv_rows>>
    /\ UNCHANGED rvars

\* filtered_samples of main: the filter is applied again, by truthiness
ExportedSamples == FilterSamples(samples, cpu_filter)

\* main with --export: after the analysis, export the filtered samples
Export ==
    /\ pc = "analyzed"
    /\ csv_rows' = export_to_csv(ExportedSamples)
    /\ pc' = "exported"
    /\ UNCHANGED <<content, samples, cpu_filter, results>>
    /\ UNCHANGED rvars

NextT == ParseLog \/ (\E filter \in CliFilters : Analyze(filter)) \/ Export

SpecTurbostat == InitT /\ [][NextT]_vars

(***************************************************************************)
(* analyze_samples as a function of the arguments a caller hands it        *)
(***************************************************************************)
Sample(cpu, c6, pkg) ==
    [ timestamp |-> None, cpu |-> cpu, avg_mhz |-> 0, busy_percent |-> 0,
      bzy_mhz |-> 0, pkg_watt |-> pkg, core_watt |-> None,
      c1_percent |-> 0, c6_percent |-> c6, c7_percent |-> 0 ]

SampleSet ==
    { Sample(1, 50, None), Sample(2, 20, Some(75)), Sample(1, 0, Some(0)),
      Sample(3, 100, None) }

InitA ==
    /\ samples \in SeqsUpTo(SampleSet, MaxSamples)
    /\ cpu_filter \in Filters
    /\ content = <<>> /\ results = None /\ csv_rows = <<>>
    /\ pc = "call"
    /\ InitR0

AnalyzeCall ==
    /\ pc = "call"
    /\ results' = analyze_samples(samples, cpu_filter)
    /\ pc' = "returned"
    /\ UNCHANGED <<content, samples, cpu_filter, csv_rows>>
    /\ UNCHANGED rvars

NextA == AnalyzeCall

SpecAnalyze == InitA /\ [][NextA]_vars

(***************************************************************************)
(* Properties of the turbostat side                                        *)
(***************************************************************************)
\* the header of the block line i lies in: the nearest preceding header line
OwnHeader(text, i) ==
    LET hs == {j \in 1..(i - 1) : IsHeaderLine(text[j])}
    IN  IF hs = {} THEN 0 ELSE SetMax(hs)

\* 1-based positions the header assigns to a column name
Positions(header, key) == {j \in DOMAIN header : Lower(header[j]) = key}

\* value was read from line at the header's position for key, or is the default
ReadAt(line, header, key, value, default) ==
    IF Positions(header, key) = {} THEN value = default
    ELSE \E j \in Positions(header, key) :
            j <= Len(line) /\ IsFloat(line[j]) /\ value = FloatOf(line[j])

OptReadAt(line, header, key, value) ==
    IF Positions(header, key) = {} THEN value = None
    ELSE \E j \in Positions(header, key) :
            j <= Len(line) /\ IsFloat(line[j]) /\ value = Some(FloatOf(line[j]))

CpuPositions(header) ==
    IF Positions(header, "cpu") = {} THEN {2} ELSE Positions(header, "cpu")

ReadThroughOwnHeader(text, i, s) ==
    /\ OwnHeader(text, i) # 0
    /\ LET line == text[i]
           header == text[OwnHeader(text, i)]
       IN  /\ \E j \in CpuPositions(header) :
                  j <= Len(line) /\ IsInt(line[j]) /\ s.cpu = IntOf(line[j])
           /\ ReadAt(line, header, "avg_mhz", s.avg_mhz, 0)
           /\ ReadAt(line, header, "busy%", s.busy_percent, 0)
           /\ ReadAt(line, header, "bzy_mhz", s.bzy_mhz, 0)
           /\ OptReadAt(line, header, "pkgwatt", s.pkg_watt)
           /\ OptReadAt(line, header, "corewatt", s.core_watt)
           /\ ReadAt(line, header, "c1%", s.c1_percent, 0)
           /\ ReadAt(line, header, "c6%", s.c6_percent, 0)
           /\ ReadAt(line, header, "c7%", s.c7_percent, 0)

\* C1: every Sample takes each field from the position that the header of
\* its own block (nearest preceding line with 'Core' and 'CPU') assigns to
\* the column, and the default when that header lacks the column.
C1_OwnBlockHeader ==
    pc # "start" =>
        \A k \in DOMAIN samples :
            ReadThroughOwnHeader(content, ParsedRows(content)[k].line, samples[k])

\* C2: every Sample returned by the parser has a non-negative cpu.
C2_CpuNonNegative ==
    pc # "start" => \A k \in DOMAIN samples : samples[k].cpu >= 0

\* the rows that, by the row rules, are to yield exactly one Sample
Qualifies(text, i) ==
    /\ OwnHeader(text, i) # 0
    /\ ~IsHeaderLine(text[i])
    /\ text[i] # <<>>
    /\ ~StartsWithDash(text[i][1])
    /\ LET line == text[i]
           header == text[OwnHeader(text, i)]
       IN  /\ Len(line) >= Len(header)
           /\ \E j \in CpuPositions(header) :
                  j <= Len(line) /\ line[j] # "-" /\ IsInt(line[j])
           /\ \A key \in FloatKeys : \A j \in Positions(header, key) : IsFloat(line[j])

RECURSIVE Ascending(_)
Ascending(S) ==
    IF S = {} THEN <<>> ELSE <<SetMin(S)>> \o Ascending(S \ {SetMin(S)})

\* C3: the parser returns exactly one Sample, in file order, for each row
\* that is non-blank, not '-'-led, long enough, has an integer CPU token
\* other than the placeholder and numbers in every mapped column; all
\* other lines yield nothing.
C3_OneSamplePerGoodRow ==
    pc # "start" =>
        [k \in DOMAIN ParsedRows(content) |-> ParsedRows(content)[k].line]
            = Ascending({i \in DOMAIN content : Qualifies(content, i)})

\* C4: with an explicit allow-list (the empty list included) statistics
\* range over the listed cpus only, and no remaining sample is the error
\* outcome.
C4_AllowListApplied ==
    (pc = "returned" /\ cpu_filter # None) =>
        LET keep == SelectSeq(samples, LAMBDA s : InList(s.cpu, cpu_filter[1]))
        IN  IF keep = <<>> THEN results.error
            ELSE /\ ~results.error
                 /\ results.total_samples = Len(keep)
                 /\ \A c \in DOMAIN results.per_cpu : InList(c, cpu_filter[1])

\* C5: an exported power cell is empty exactly when the field is absent,
\* so reading the cell back gives the field, a present 0 included.
C5_PowerCellRoundTrip ==
    pc = "exported" =>
        /\ Len(csv_rows) = Len(ExportedSamples)
        /\ \A i \in DOMAIN ExportedSamples :
            LET s == ExportedSamples[i]
            IN  /\ (csv_rows[i].pkg_watt = <<>>) <=> (s.pkg_watt = None)
                /\ (csv_rows[i].core_watt = <<>>) <=> (s.core_watt = None)
                /\ ReadOptCell(csv_rows[i].pkg_watt) = s.pkg_watt
                /\ ReadOptCell(csv_rows[i].core_watt) = s.core_watt

\* C9: in every CPU group c6_min <= c6_avg <= c6_max and c6_avg is in [0,100].
C9_ResidencyBounds ==
    (pc \in {"analyzed", "exported"} /\ ~results.error) =>
        \A c \in DOMAIN results.per_cpu :
            LET st == results.per_cpu[c]
            IN  /\ st.c6_min * st.c6_avg.den <= st.c6_avg.num
                /\ st.c6_avg.num <= st.c6_max * st.c6_avg.den
                /\ 0 <= st.c6_avg.num
                /\ st.c6_avg.num <= 100 * st.c6_avg.den

\* the c6 values analyze_samples aggregates, and n^2 times their squared
\* deviations from the mean: sum((n*x - sum(x))^2)
AnalyzedC6 ==
    LET ss == FilterSamples(samples, cpu_filter)
    IN  [i \in DOMAIN ss |-> ss[i].c6_percent]

ScaledSqDev(xs) ==
    SumSeq([i \in DOMAIN xs |->
               (Len(xs) * xs[i] - SumSeq(xs)) * (Len(xs) * xs[i] - SumSeq(xs))])

\* C10 (as stated): c6_std squared is the squared deviations from the mean
\* divided by n for two or more samples, and 0 for one sample.
C10_PopulationStd ==
    (pc \in {"analyzed", "exported"} /\ ~results.error) =>
        LET xs == AnalyzedC6
            n == Len(xs)
            sd == results.aggregate.c6_std
        IN  /\ n = 1 => sd.sq_num = 0
            /\ n >= 2 => /\ sd.sq_den > 0
                         /\ sd.sq_num * (n * n * n) = sd.sq_den * ScaledSqDev(xs)

\* C10 (amended): c6_std squared is the squared deviations from the mean
\* divided by n - 1 (sample standard deviation) for two or more samples;
\* it is 0 for one sample and 0 when all samples share one value.
C10_SampleStd ==
    (pc \in {"analyzed", "exported"} /\ ~results.error) =>
        LET xs == AnalyzedC6
            n == Len(xs)
            sd == results.aggregate.c6_std
        IN  /\ n = 1 => sd.sq_num = 0
            /\ n >= 2 => /\ sd.sq_den > 0
                         /\ sd.sq_num * (n * n * (n - 1)) = sd.sq_den * ScaledSqDev(xs)
            /\ (\A i \in DOMAIN xs : xs[i] = xs[1]) => sd.sq_num = 0

C10_Witness ==
    /\ pc = "analyzed" /\ ~results.error
    /\ results.total_samples >= 2
    /\ results.aggregate.c6_std.sq_num > 0

(***************************************************************************)
(* analyze_results.py: exact fractions for float arithmetic                *)
(***************************************************************************)
RECURSIVE GCD(_, _)
GCD(a, b) == IF b = 0 THEN a ELSE GCD(b, a % b)

Abs(n) == IF n < 0 THEN 0 - n ELSE n

\* lowest terms, positive denominator
Norm(num, den) ==
    LET g == GCD(Abs(num), Abs(den))
        sgn == IF den < 0 THEN 0 - 1 ELSE 1
    IN  [num |-> sgn * (num \div g), den |-> sgn * (den \div g)]

Frac(n) == [num |-> n, den |-> 1]
RAdd(a, b) == Norm(a.num * b.den + b.num * a.den, a.den * b.den)
RSub(a, b) == Norm(a.num * b.den - b.num * a.den, a.den * b.den)
RMul(a, b) == LET x == Norm(a.num, b.den)
                  y == Norm(b.num, a.den)
              IN  Norm(x.num * y.num, x.den * y.den)
RDiv(a, b) == RMul(a, Norm(b.den, b.num))
Inf == [num |-> 1, den |-> 0]

(***************************************************************************)
(* ExperimentResults                                                       *)
(***************************************************************************)
\* a plausible slip: failed (zero) checkpoints kept in the average
avg_checkpoint_ms_keep_zero(rs) ==
    LET sel == SelectSeq(rs, LAMBDA r : r.checkpoint_ms >= 0)
        valid == [i \in DOMAIN sel |-> sel[i].checkpoint_ms]
    IN  IF valid # <<>> THEN Mean(valid) ELSE Zero

avg_checkpoint_ms(rs) ==
    LET sel == SelectSeq(rs, LAMBDA r : r.checkpoint_ms > 0)
        valid == [i \in DOMAIN sel |-> sel[i].checkpoint_ms]
    IN  IF valid # <<>> THEN Mean(valid) ELSE Zero

avg_restore_ms(rs) ==
    LET sel == SelectSeq(rs, LAMBDA r : r.restore_ms > 0)
        valid == [i \in DOMAIN sel |-> sel[i].restore_ms]
    IN  IF valid # <<>> THEN Mean(valid) ELSE Zero

\* statistics.mean over all runs; raises StatisticsError when rs is empty
\* (callers test AvgC6Raises first)
AvgC6Raises(rs) == rs = <<>>
avg_c6_residency(rs) == Mean([i \in DOMAIN rs |-> rs[i].c6_residency_percent])

total_overhead_ms(rs) == RAdd(avg_checkpoint_ms(rs), avg_restore_ms(rs))

(***************************************************************************)
(* load_results / load_baseline_c6                                         *)
(***************************************************************************)
RowParses(row) ==
    /\ IsInt(row.run)
    /\ IsFloat(row.checkpoint_ms)
    /\ IsFloat(row.restore_ms)
    /\ IsFloat(row.idle_duration_s)
    /\ IsFloat(row.c6_residency_percent)

ExperimentRun(row) ==
    [ run_id               |-> IntOf(row.run),
      checkpoint_ms        |-> FloatOf(row.checkpoint_ms),
      restore_ms           |-> FloatOf(row.restore_ms),
      idle_duration_s      |-> FloatOf(row.idle_duration_s),
      c6_residency_percent |-> FloatOf(row.c6_residency_percent) ]

\* the row loop has no handler: the first bad row raises out of load_results
LoadRaises(rows) == \E i \in DOMAIN rows : ~RowParses(rows[i])
LoadRuns(rows) == [i \in DOMAIN rows |-> ExperimentRun(rows[i])]

\* a baseline row is the sequence of its cells under the '...c6_percent...'
\* columns; the header has as many such columns as the longest row
BaselineWidth(rows) == IF rows = <<>> THEN 0 ELSE SetMax({Len(rows[i]) : i \in DOMAIN rows})

\* csv.DictReader skips a blank line and fills the missing cells of a short
\* row with None; float(None) is a TypeError, which "except ValueError"
\* does not catch
BaselineRaises(file) ==
    /\ file # None
    /\ \E i \in DOMAIN file[1] :
           file[1][i] # <<>> /\ Len(file[1][i]) < BaselineWidth(file[1])

RECURSIVE BaselineValues(_)
BaselineValues(rows) ==
    IF rows = <<>> THEN <<>>
    ELSE LET ok == SelectSeq(Head(rows), IsFloat)
         IN  [i \in DOMAIN ok |-> FloatOf(ok[i])] \o BaselineValues(Tail(rows))

\* the value returned when BaselineRaises(file) is false
load_baseline_c6(file) ==
    IF file = None THEN None
    ELSE IF BaselineValues(file[1]) # <<>> THEN Some(Mean(BaselineValues(file[1])))
    ELSE None

(***************************************************************************)
(* calculate_energy_savings / export_summary                               *)
(***************************************************************************)
server_power_w == 100
c6_power_reduction == [num |-> 85, den |-> 100]

\* "baseline_c6 or 0"
BaselineOrZero(b) == IF b = None \/ b[1].num = 0 THEN Zero ELSE b[1]

calculate_energy_savings(rs, baseline) ==
    LET idle_duration_s == IF rs # <<>> THEN rs[1].idle_duration_s ELSE 0
        overhead_s == RDiv(total_overhead_ms(rs), Frac(1000))
        overhead_energy_j == RMul(Frac(server_power_w), overhead_s)
        c6_savings_fraction == RDiv(avg_c6_residency(rs), Frac(100))
        idle_energy_saved_j ==
            RMul(RMul(RMul(Frac(server_power_w), c6_power_reduction),
                      Frac(idle_duration_s)), c6_savings_fraction)
        net_savings_j == RSub(idle_energy_saved_j, overhead_energy_j)
        break_even_s ==
            IF c6_savings_fraction.num > 0
            THEN RDiv(overhead_s, RMul(c6_power_reduction, c6_savings_fraction))
            ELSE Inf
    IN  [ overhead_energy_j   |-> overhead_energy_j,
          idle_energy_saved_j |-> idle_energy_saved_j,
          net_savings_j       |-> net_savings_j,
          net_savings_percent |->
              IF idle_duration_s > 0
              THEN RMul(RDiv(net_savings_j, Frac(server_power_w * idle_duration_s)),
                        Frac(100))
              ELSE Zero,
          break_even_idle_s   |-> break_even_s,
          c6_improvement_percent |->
              RSub(avg_c6_residency(rs), BaselineOrZero(baseline)) ]

export_summary(rs, baseline) ==
    LET e == calculate_energy_savings(rs, baseline)
    IN  [ num_runs            |-> Len(rs),
          avg_checkpoint_ms   |-> avg_checkpoint_ms(rs),
          avg_restore_ms      |-> avg_restore_ms(rs),
          total_overhead_ms   |-> total_overhead_ms(rs),
          avg_c6_residency    |-> avg_c6_residency(rs),
          baseline_c6         |-> BaselineOrZero(baseline),
          net_energy_savings_j       |-> e.net_savings_j,
          net_energy_savings_percent |-> e.net_savings_percent,
          break_even_idle_s   |-> e.break_even_idle_s ]

(***************************************************************************)
(* Results side: inputs and actions                                        *)
(***************************************************************************)
Row(run, ckpt, rest, idle, c6) ==
    [ run |-> run, checkpoint_ms |-> ckpt, restore_ms |-> rest,
      idle_duration_s |-> idle, c6_residency_percent |-> c6 ]

ResultRows ==
    { Row("1", "10", "20", "5", "50"),
      Row("2", "0", "30", "5", "80"),
      Row("3", "30", "-5", "5", "0"),
      Row("1", "20", "10", "0", "75"),
      Row("2", "x", "30", "5", "80"),
      Row("3", "30", "20", "5", "") }

BaselineFiles ==
    { None, Some(<<>>), Some(<< <<"10">> >>), Some(<< <<"x", "20">>, <<"0">> >>),
      Some(<< <<"x", "20">>, <<"0", "x">> >>), Some(<< <<"0">> >>) }

InitT0 ==
    /\ content = <<>> /\ samples = <<>> /\ cpu_filter = None /\ results = None
    /\ csv_rows = <<>> /\ pc = "off"

InitR ==
    /\ results_file \in {None} \cup {Some(rows) : rows \in SeqsUpTo(ResultRows, MaxRows)}
    /\ baseline_file \in BaselineFiles
    /\ runs = <<>> /\ baseline_c6 = None /\ energy = None /\ summary = None
    /\ rpc = "start"
    /\ InitT0

\* main: load_results; the rows are converted first, then the baseline is
\* read; either exception leaves main with nothing loaded (exit 1)
LoadResults ==
    /\ rpc = "start"
    /\ IF results_file = None
       THEN rpc' = "not_found" /\ UNCHANGED <<runs, baseline_c6>>
       ELSE IF LoadRaises(results_file[1])
       THEN rpc' = "load_raised" /\ UNCHANGED <<runs, baseline_c6>>
       ELSE IF BaselineRaises(baseline_file)
       THEN rpc' = "baseline_raised" /\ UNCHANGED <<runs, baseline_c6>>
       ELSE /\ runs' = LoadRuns(results_file[1])
            /\ baseline_c6' = load_baseline_c6(baseline_file)
            /\ rpc' = "loaded"
    /\ UNCHANGED <<results_file, baseline_file, energy, summary>>
    /\ UNCHANGED tvars

\* main: print_report; it formats avg_c6_residency (StatisticsError on an
\* empty run list) and then calls calculate_energy_savings
PrintReport ==
    /\ rpc = "loaded"
    /\ IF AvgC6Raises(runs)
       THEN rpc' = "report_raised" /\ UNCHANGED energy
       ELSE energy' = calculate_energy_savings(runs, baseline_c6) /\ rpc' = "reported"
    /\ UNCHANGED <<results_file, baseline_file, runs, baseline_c6, summary>>
    /\ UNCHANGED tvars

\* main with --export: export_summary after the report
ExportSummary ==
    /\ rpc = "reported"
    /\ IF AvgC6Raises(runs)
       THEN rpc' = "export_raised" /\ UNCHANGED summary
       ELSE summary' = export_summary(runs, baseline_c6) /\ rpc' = "exported"
    /\ UNCHANGED <<results_file, baseline_file, runs, baseline_c6, energy>>
    /\ UNCHANGED tvars

NextR == LoadResults \/ PrintReport \/ ExportSummary

SpecResults == InitR /\ [][NextR]_vars

(***************************************************************************)
(* calculate_energy_savings as a function of the ExperimentResults that    *)
(* load_results can build                                                  *)
(***************************************************************************)
InitE ==
    /\ runs \in {LoadRuns(rows) :
                    rows \in {r \in SeqsUpTo(ResultRows, MaxRows) : ~LoadRaises(r)}}
    /\ baseline_c6 \in {load_baseline_c6(f) :
                           f \in {g \in BaselineFiles : ~BaselineRaises(g)}}
    /\ results_file = None /\ baseline_file = None
    /\ energy = None /\ summary = None
    /\ rpc = "call"
    /\ InitT0

CalculateEnergySavings ==
    /\ rpc = "call"
    /\ IF AvgC6Raises(runs)
       THEN rpc' = "energy_raised" /\ UNCHANGED energy
       ELSE energy' = calculate_energy_savings(runs, baseline_c6) /\ rpc' = "energy"
    /\ UNCHANGED <<results_file, baseline_file, runs, baseline_c6, summary>>
    /\ UNCHANGED tvars

NextE == CalculateEnergySavings

SpecEnergy == InitE /\ [][NextE]_vars

(***************************************************************************)
(* Properties of the results side                                          *)
(***************************************************************************)
RECURSIVE SumOver(_, _)
SumOver(S, f) ==
    IF S = {} THEN 0
    ELSE LET i == CHOOSE j \in S : TRUE IN f[i] + SumOver(S \ {i}, f)

\* avg is the mean of f over the index set S
IsMeanOver(avg, S, f) ==
    avg.den > 0 /\ avg.num * Cardinality(S) = avg.den * SumOver(S, f)

\* C6: avg_checkpoint_ms / avg_restore_ms are the means over exactly the
\* runs whose value is > 0, while the run count and avg_c6_residency range
\* over all runs, failed phases included.
C6_AveragesSkipFailedPhases ==
    rpc = "exported" =>
        LET ck == [i \in DOMAIN runs |-> runs[i].checkpoint_ms]
            rs == [i \in DOMAIN runs |-> runs[i].restore_ms]
            c6 == [i \in DOMAIN runs |-> runs[i].c6_residency_percent]
            okc == {i \in DOMAIN runs : ck[i] > 0}
            okr == {i \in DOMAIN runs : rs[i] > 0}
        IN  /\ summary.num_runs = Len(results_file[1])
            /\ okc # {} => IsMeanOver(summary.avg_checkpoint_ms, okc, ck)
            /\ okr # {} => IsMeanOver(summary.avg_restore_ms, okr, rs)
            /\ IsMeanOver(summary.avg_c6_residency, DOMAIN runs, c6)

C6_Witness ==
    /\ rpc = "exported"
    /\ summary.num_runs = 3
    /\ \E i \in DOMAIN runs : runs[i].checkpoint_ms <= 0
    /\ Cardinality({i \in DOMAIN runs : runs[i].checkpoint_ms > 0}) = 2

\* rows of the file that parse, in file order
GoodRows(rows) == SelectSeq(rows, RowParses)

\* C7: a data row that fails to parse is dropped alone; loading goes on,
\* the other rows become the runs in file order, and no error is raised.
C7_BadRowDropped ==
    (/\ rpc # "start" /\ results_file # None
     /\ LoadRaises(results_file[1]) /\ ~BaselineRaises(baseline_file)) =>
        /\ rpc # "load_raised"
        /\ runs = LoadRuns(GoodRows(results_file[1]))

\* C8: with zero runs calculate_energy_savings does not raise and returns
\* net_savings_percent = 0.
C8_EmptyRunsEnergy ==
    (rpc \in {"energy", "energy_raised"} /\ runs = <<>>) =>
        /\ rpc = "energy"
        /\ energy.net_savings_percent.num = 0

====
